---- MODULE Spec2Model ----
(***************************************************************************)
(* wmsget: the Dimension Resolver (geom.get_dims), the Polygon Tiler       *)
(* (geom.split_geom) and the per-tile fetch loop (wms.get_image).          *)
(*                                                                         *)
(* Numbers.  Coordinates, resolutions and paddings are Python floats; the  *)
(* model holds them exactly, as integer counts of a fine unit, FU fine     *)
(* units to one georeferenced unit.  FU is chosen so that the resolutions  *)
(* 0.1, 0.125 and 1.0, half units, and the halves and thirds np.linspace   *)
(* produces are all whole numbers of fine units (LinspaceExact says so).   *)
(* Pixel counts (width, height, min_len, max_len) are plain integers.      *)
(*                                                                         *)
(* Geometry.  A polygon is a finite set of axis-parallel rectangles        *)
(* <<x0, y0, x1, y1>> with disjoint interiors whose union is connected     *)
(* and has no hole: a rectilinear simple polygon.  The shapely operations  *)
(* split_geom uses (bounds, split, polygonize, area, intersection,         *)
(* touches, union, buffer) are computed on that representation.            *)
(***************************************************************************)
EXTENDS Integers, Sequences, FiniteSets, TLC

VARIABLES
    \* ---- get_dims call under study (SpecDims)
    d_pc, d_bounds, d_res, d_padding, d_min_len, d_out, d_pair,
    \* ---- split_geom (Spec): parameters, locals, return value
    pc, geometry, res, max_len, buffer,
    dims, xlines, ylines, gdf, slivers, absorbed, dropped, ret,
    \* ---- get_image (SpecImage)
    i_pc, tries, tiles, g, i, reqs, clock, sentAt, written, raised

dimsVars  == <<d_pc, d_bounds, d_res, d_padding, d_min_len, d_out, d_pair>>
splitVars == <<pc, geometry, res, max_len, buffer,
               dims, xlines, ylines, gdf, slivers, absorbed, dropped, ret>>
imageVars == <<i_pc, tries, tiles, g, i, reqs, clock, sentAt, written, raised>>
vars      == <<dimsVars, splitVars, imageVars>>

(***************************************************************************)
(* Units and program constants                                             *)
(***************************************************************************)
\* fine units per georeferenced unit
FU == 2 * 2 * 2 * 3 * 5
\* fine units per half georeferenced unit
HU == FU \div 2
\* res = .125, the default of get_dims
DefaultRes == FU \div 8
\* res = 0.1 (the 10 cm imagery of get_layer_name) and res = 1.0
Res10cm == FU \div 10
Res1m == FU

MinLenDefault == 256
AreaMin == 1
IntersectMin == 10
SliverArea == 100
TimeoutCode == 504
SleepSecs == 5

(***************************************************************************)
(* Bounds of the model                                                     *)
(***************************************************************************)
\* integer scalar paddings 0..MaxPad (georeferenced units)
MaxPad == 2
\* widths and heights of the bounds handed to get_dims: multiples of DimStep units
MaxDimSteps == 3
\* arm lengths of the input polygons: multiples of ArmStep
MaxArm == 2
\* buffer: 0..MaxBuffer georeferenced units
MaxBuffer == 1
\* get_image: tries in 1..MaxTries, at most MaxTiles tiles
MaxTries == 3
MaxTiles == 3

(***************************************************************************)
(* Arithmetic                                                              *)
(***************************************************************************)
\* int(a / b) for b > 0: Python's int() truncates toward zero
TruncDiv(a, b) == IF a >= 0 THEN a \div b ELSE -((-a) \div b)

\* np.ceil(a / b) for a >= 0, b > 0
CeilDiv(a, b) == (a + b - 1) \div b

(***************************************************************************)
(* get_dims                                                                *)
(***************************************************************************)
NoPadding == [kind |-> "none", y |-> 0, x |-> 0]
IntPadding(p) == [kind |-> "int", y |-> p * FU, x |-> p * FU]
FloatPadding(f) == [kind |-> "float", y |-> f, x |-> f]
TuplePadding(py, px) == [kind |-> "tuple", y |-> py, x |-> px]

Raise(e) == [ok |-> FALSE, err |-> e, bounds |-> <<0, 0, 0, 0>>, width |-> 0, height |-> 0]
Return(b, w, h) == [ok |-> TRUE, err |-> "", bounds |-> b, width |-> w, height |-> h]

\* the parameters get_dims declares
GetDimsParams == {"bounds", "res", "padding", "min_len"}

\* the keywords of the two recursive calls
RecursiveKeywords == {"x_buffer", "y_buffer"}

\* Python's call: a keyword the function does not declare raises TypeError
\* before the body runs
CallGetDims(keywords, callee) ==
    IF keywords \subseteq GetDimsParams THEN callee ELSE Raise("TypeError")

\* variant: an int pads the y axis only
GetDimsBuffersSwapped(padding) ==
    CASE padding.kind = "none"  -> [bound |-> TRUE, y |-> 0, x |-> 0]
      [] padding.kind = "int"   -> [bound |-> TRUE, y |-> padding.y, x |-> 0]
      [] padding.kind = "tuple" -> [bound |-> TRUE, y |-> padding.y, x |-> padding.x]
      [] OTHER                  -> [bound |-> FALSE, y |-> 0, x |-> 0]

\* the isinstance chain: y_buffer, x_buffer are bound for None, an int and a
\* tuple, and stay unbound for anything else (there is no else branch)
GetDimsBuffers(padding) ==
    CASE padding.kind = "none"  -> [bound |-> TRUE, y |-> 0, x |-> 0]
      [] padding.kind = "int"   -> [bound |-> TRUE, y |-> padding.y, x |-> padding.y]
      [] padding.kind = "tuple" -> [bound |-> TRUE, y |-> padding.y, x |-> padding.x]
      [] OTHER                  -> [bound |-> FALSE, y |-> 0, x |-> 0]

RECURSIVE get_dims(_, _, _, _)
get_dims(bounds, r, padding, min_len) ==
    LET buf == GetDimsBuffers(padding) IN
    IF ~buf.bound THEN Raise("UnboundLocalError")
    ELSE
    LET minx == bounds[1] - buf.x
        miny == bounds[2] - buf.y
        maxx == bounds[3] + buf.x
        maxy == bounds[4] + buf.y
        width == TruncDiv(maxx - minx, r)
        height == TruncDiv(maxy - miny, r)
        \* the recursive calls pass the bounds alone and two keywords; had the
        \* keywords been declared, res, padding and min_len would take their defaults
        again == get_dims(<<minx, miny, maxx, maxy>>, DefaultRes, NoPadding, MinLenDefault)
    IN  IF width < min_len
            THEN CallGetDims({"bounds"} \cup RecursiveKeywords, again)
        ELSE IF height < min_len
            THEN CallGetDims({"bounds"} \cup RecursiveKeywords, again)
        ELSE Return(<<minx, miny, maxx, maxy>>, width, height)

(***************************************************************************)
(* Geometry: the shapely operations on sets of rectangles                  *)
(***************************************************************************)
RECURSIVE SumOver(_, _)
SumOver(f, S) ==
    IF S = {} THEN 0
    ELSE LET e == CHOOSE e \in S : TRUE IN f[e] + SumOver(f, S \ {e})

SetMin(S) == CHOOSE m \in S : \A n \in S : m <= n
SetMax(S) == CHOOSE m \in S : \A n \in S : m >= n

\* consecutive pairs of a set of coordinates
Consecutive(C) ==
    {p \in C \X C : p[1] < p[2] /\ \A m \in C : ~(p[1] < m /\ m < p[2])}

XCoords(S) == {r[1] : r \in S} \cup {r[3] : r \in S}
YCoords(S) == {r[2] : r \in S} \cup {r[4] : r \in S}

Inside(c, r) == r[1] <= c[1] /\ c[3] <= r[3] /\ r[2] <= c[2] /\ c[4] <= r[4]

\* the cells of the grid through every coordinate of S that S covers
Cells(S, xs, ys) ==
    {c \in {<<px[1], py[1], px[2], py[2]>> : px \in Consecutive(xs), py \in Consecutive(ys)} :
        \E r \in S : Inside(c, r)}

RectArea(r) == (r[3] - r[1]) * (r[4] - r[2])

\* .area, in squared fine units (the union of the rectangles, which may overlap)
Area(S) ==
    LET cells == Cells(S, XCoords(S), YCoords(S))
    IN  SumOver([c \in cells |-> RectArea(c)], cells)

\* squared georeferenced units in squared fine units
SqUnits(n) == n * FU * FU

\* .bounds
Bounds(S) ==
    <<SetMin({r[1] : r \in S}), SetMin({r[2] : r \in S}),
      SetMax({r[3] : r \in S}), SetMax({r[4] : r \in S})>>

\* a.intersection(b).area
IntersectionArea(A, B) == Area(A) + Area(B) - Area(A \cup B)

\* a.touches(b): a common point, and no common interior point
Touches(A, B) ==
    /\ \E a \in A, b \in B :
          /\ a[1] <= b[3] /\ b[1] <= a[3]
          /\ a[2] <= b[4] /\ b[2] <= a[4]
    /\ IntersectionArea(A, B) = 0

\* a.union(b)
Union(A, B) == A \cup B

\* the same point set
SameRegion(A, B) == Area(A) = Area(B) /\ Area(A \cup B) = Area(A)

\* A covers B
Covers(A, B) == Area(A \cup B) = Area(A)

\* variant: buffer(-b)
BufferShrinks(S, b) == {<<r[1] + b, r[2] + b, r[3] - b, r[4] - b>> : r \in S}

\* .buffer(b, cap_style='square', join_style='mitre') of a rectilinear
\* polygon: every rectangle grown by b on each side
Buffer(S, b) == {<<r[1] - b, r[2] - b, r[3] + b, r[4] + b>> : r \in S}

\* two cells with a common edge of positive length
Adjacent(a, b) ==
    \/ /\ (a[3] = b[1] \/ b[3] = a[1])
       /\ (IF a[2] > b[2] THEN a[2] ELSE b[2]) < (IF a[4] < b[4] THEN a[4] ELSE b[4])
    \/ /\ (a[4] = b[2] \/ b[4] = a[2])
       /\ (IF a[1] > b[1] THEN a[1] ELSE b[1]) < (IF a[3] < b[3] THEN a[3] ELSE b[3])

\* the connected component of seed under links, the pairs of adjacent cells
\* that no line separates
RECURSIVE Component(_, _)
Component(seed, links) ==
    LET more == {p[2] : p \in {q \in links : q[1] \in seed}} \ seed
    IN  IF more = {} THEN seed ELSE Component(seed \cup more, links)

\* shapely.ops.split(polygon, line) for a full-length axis-parallel line:
\* the parts of the polygon on either side of it
Split(P, line) ==
    LET xs == XCoords(P) \cup (IF line.axis = "x" THEN {line.at} ELSE {})
        ys == YCoords(P) \cup (IF line.axis = "y" THEN {line.at} ELSE {})
        cells == Cells(P, xs, ys)
        Side(c) == IF line.axis = "x" THEN c[3] <= line.at ELSE c[4] <= line.at
        Joined(a, b) == Side(a) = Side(b)
        links == {p \in cells \X cells : Adjacent(p[1], p[2]) /\ Joined(p[1], p[2])}
    IN  {Component({c}, links) : c \in cells}

\* polygonize(exteriors.union_all()): the faces of the arrangement of the
\* fragments' rings.  Two adjacent cells lie in one face when no ring runs
\* between them, that is when every fragment holds both or neither.
Polygonize(fragments) ==
    LET all == UNION fragments
        cells == Cells(all, XCoords(all), YCoords(all))
        In(c, f) == \E r \in f : Inside(c, r)
        Joined(a, b) == \A f \in fragments : In(a, f) = In(b, f)
        links == {p \in cells \X cells : Adjacent(p[1], p[2]) /\ Joined(p[1], p[2])}
    IN  {Component({c}, links) : c \in cells}

(***************************************************************************)
(* split_geom                                                              *)
(***************************************************************************)
\* np.linspace(a, b, num)[1:-1]
Linspace(a, b, num) == {a + ((b - a) * k) \div (num - 1) : k \in 1..(num - 2)}

\* gdf[gdf.area > 1]
AreaFilter(frame) == {f \in frame : Area(f) > SqUnits(AreaMin)}

\* gdf[gdf.intersection(geometry).area > 10]
IntersectionFilter(frame, geom) ==
    {f \in frame : IntersectionArea(f, geom) > SqUnits(IntersectMin)}

\* gdf[gdf.area < 100]
Slivers(frame) == {f \in frame : Area(f) < SqUnits(SliverArea)}

\* variant: no area test on the rows kept as tiles
TilesUnfiltered(frame) == frame

\* gdf[gdf.area >= 100]
Tiles(frame) == {f \in frame : Area(f) >= SqUnits(SliverArea)}

\* the pixel extent of a geometry at resolution r
PixelWidth(S, r) == TruncDiv(Bounds(S)[3] - Bounds(S)[1], r)
PixelHeight(S, r) == TruncDiv(Bounds(S)[4] - Bounds(S)[2], r)

\* get_dims(geometry.bounds, **kwargs): res is a named parameter of split_geom,
\* so kwargs never holds it and get_dims runs with its own default res
SplitGetDims ==
    /\ pc = "get_dims"
    /\ dims' = get_dims(Bounds(geometry), DefaultRes, NoPadding, MinLenDefault)
    /\ pc' = IF dims'.ok THEN "lines" ELSE "raised"
    /\ UNCHANGED <<geometry, res, max_len, buffer, xlines, ylines, gdf, slivers,
                   absorbed, dropped, ret, dimsVars, imageVars>>

\* the cut lines; with none, the early return of the input geometry
SplitLines ==
    /\ pc = "lines"
    /\ LET minx == dims.bounds[1]
           miny == dims.bounds[2]
           maxx == dims.bounds[3]
           maxy == dims.bounds[4]
           xl == IF dims.width > max_len
                    THEN Linspace(minx, maxx, 1 + CeilDiv(maxx - minx, res * max_len))
                    ELSE {}
           yl == IF dims.height > max_len
                    THEN Linspace(miny, maxy, 1 + CeilDiv(maxy - miny, res * max_len))
                    ELSE {}
       IN  /\ xlines' = xl
           /\ ylines' = yl
           /\ IF xl \cup yl = {}
                 THEN ret' = {geometry} /\ pc' = "done"
                 ELSE ret' = ret /\ pc' = "split"
    /\ UNCHANGED <<geometry, res, max_len, buffer, dims, gdf, slivers,
                   absorbed, dropped, dimsVars, imageVars>>

Lines == {[axis |-> "x", at |-> x] : x \in xlines} \cup {[axis |-> "y", at |-> y] : y \in ylines}

\* split by every line, polygonize the rings, filter, classify
SplitPolygonize ==
    /\ pc = "split"
    /\ LET geoms == UNION {Split(geometry, line) : line \in Lines}
           frame == IntersectionFilter(AreaFilter(Polygonize(geoms)), geometry)
       IN  /\ slivers' = Slivers(frame)
           /\ gdf' = Tiles(frame)
    /\ pc' = "absorb"
    /\ UNCHANGED <<geometry, res, max_len, buffer, dims, xlines, ylines,
                   absorbed, dropped, ret, dimsVars, imageVars>>

\* one pass of the sliver loop.  The row order polygonize yields is not
\* documented: any sliver may come next and any touching tile may be nbs.iloc[0].
SplitAbsorb ==
    /\ pc = "absorb"
    /\ \E sliver \in slivers :
          LET nbs == {t \in gdf : Touches(t, sliver)}
          IN  /\ slivers' = slivers \ {sliver}
              /\ IF nbs # {}
                    THEN /\ \E nb \in nbs : gdf' = (gdf \ {nb}) \cup {Union(nb, sliver)}
                         /\ absorbed' = absorbed \cup {sliver}
                         /\ dropped' = dropped
                    ELSE /\ gdf' = gdf
                         /\ absorbed' = absorbed
                         /\ dropped' = dropped \cup {sliver}
    /\ UNCHANGED <<pc, geometry, res, max_len, buffer, dims, xlines, ylines, ret,
                   dimsVars, imageVars>>

\* after the loop: buffer, reset_index, return
SplitBuffer ==
    /\ pc = "absorb"
    /\ slivers = {}
    /\ ret' = {Buffer(t, buffer) : t \in gdf}
    /\ pc' = "done"
    /\ UNCHANGED <<geometry, res, max_len, buffer, dims, xlines, ylines, gdf, slivers,
                   absorbed, dropped, dimsVars, imageVars>>

(***************************************************************************)
(* get_image: the loop over the tiles, from `for _, g in gdf.iterrows()`   *)
(***************************************************************************)
\* send_request returned an image
StatusOk == 200

\* an HTTPError status other than the gateway timeout
StatusOther == 500

Statuses == {StatusOk, TimeoutCode, StatusOther}

IsHttpError(status) == status # StatusOk

ImageRes == DefaultRes

\* variant: range(tries + 1)
RangeDoneLate(k, n) == k > n

\* `for i in range(tries)` has run out
RangeDone(k, n) == k >= n

\* (err_code==504) & (i<tries-1)
RetryAfterSleep(err_code, k, n) == err_code = TimeoutCode /\ k < n - 1

\* b, w, h = dims = get_dims(g.geometry.bounds, res); a raise ends get_image
ImgGetDims ==
    /\ i_pc = "tile"
    /\ g <= Len(tiles)
    /\ LET d == get_dims(tiles[g], ImageRes, NoPadding, MinLenDefault)
       IN  IF d.ok
              THEN i_pc' = "try" /\ raised' = raised
              ELSE i_pc' = "raised" /\ raised' = d.err
    /\ i' = 0
    /\ UNCHANGED <<tries, tiles, g, reqs, clock, sentAt, written, dimsVars, splitVars>>

\* one pass of the for body: send_request, then break on success, sleep and
\* continue on a 504 with tries left, and otherwise fall out of the except
\* clause into the next pass
ImgRequest ==
    /\ i_pc = "try"
    /\ ~RangeDone(i, tries)
    /\ \E status \in Statuses :
          /\ reqs' = [reqs EXCEPT ![g] = Append(@, status)]
          /\ sentAt' = [sentAt EXCEPT ![g] = Append(@, clock)]
          /\ IF ~IsHttpError(status)
                THEN i_pc' = "write" /\ i' = i
                ELSE IF RetryAfterSleep(status, i, tries)
                        THEN i_pc' = "sleep" /\ i' = i
                        ELSE i_pc' = "try" /\ i' = i + 1
    /\ UNCHANGED <<tries, tiles, g, clock, written, raised, dimsVars, splitVars>>

\* time.sleep(5); continue
ImgSleep ==
    /\ i_pc = "sleep"
    /\ clock' = clock + SleepSecs
    /\ i' = i + 1
    /\ i_pc' = "try"
    /\ UNCHANGED <<tries, tiles, g, reqs, sentAt, written, raised, dimsVars, splitVars>>

\* the for loop's else clause: raise RuntimeError('WMS request failed.')
ImgRaise ==
    /\ i_pc = "try"
    /\ RangeDone(i, tries)
    /\ raised' = "RuntimeError"
    /\ i_pc' = "raised"
    /\ UNCHANGED <<tries, tiles, g, i, reqs, clock, sentAt, written, dimsVars, splitVars>>

\* dst.write(data, window=window), then the next tile
ImgWrite ==
    /\ i_pc = "write"
    /\ written' = written \cup {g}
    /\ g' = g + 1
    /\ i_pc' = "tile"
    /\ UNCHANGED <<tries, tiles, i, reqs, clock, sentAt, raised, dimsVars, splitVars>>

\* the tiles are exhausted: the with block closes and get_image returns
ImgReturn ==
    /\ i_pc = "tile"
    /\ g > Len(tiles)
    /\ i_pc' = "returned"
    /\ UNCHANGED <<tries, tiles, g, i, reqs, clock, sentAt, written, raised,
                   dimsVars, splitVars>>

(***************************************************************************)
(* SpecDims: one call of get_dims, and for a scalar padding p the call     *)
(* with the pair (p, p) on the same bounds, resolution and min_len         *)
(***************************************************************************)
DimStep == 16 * FU

DimBounds ==
    {<<0, 0, w * DimStep, h * DimStep>> : w \in 1..MaxDimSteps, h \in 1..MaxDimSteps}

Resolutions == {Res10cm, DefaultRes, Res1m}

ScalarPaddings ==
    {IntPadding(p) : p \in 0..MaxPad} \cup {FloatPadding(5 * HU)}

Paddings ==
    {NoPadding} \cup ScalarPaddings
    \cup {TuplePadding(py, px) : py \in {0, FU, 5 * HU}, px \in {0, FU, 5 * HU}}

IsScalar(padding) == padding.kind \in {"int", "float"}

NoResult == Raise("")

splitIdle ==
    /\ pc = "idle" /\ geometry = {} /\ res = 0 /\ max_len = 0 /\ buffer = 0
    /\ dims = NoResult /\ xlines = {} /\ ylines = {} /\ gdf = {} /\ slivers = {}
    /\ absorbed = {} /\ dropped = {} /\ ret = {}

imageIdle ==
    /\ i_pc = "idle" /\ tries = 0 /\ tiles = <<>> /\ g = 0 /\ i = 0 /\ reqs = <<>>
    /\ clock = 0 /\ sentAt = <<>> /\ written = {} /\ raised = ""

dimsIdle ==
    /\ d_pc = "idle" /\ d_bounds = <<0, 0, 0, 0>> /\ d_res = 0 /\ d_padding = NoPadding
    /\ d_min_len = 0 /\ d_out = NoResult /\ d_pair = NoResult

InitDims ==
    /\ d_pc = "call"
    /\ d_bounds \in DimBounds
    /\ d_res \in Resolutions
    /\ d_padding \in Paddings
    /\ d_min_len \in {1, MinLenDefault}
    /\ d_out = NoResult
    /\ d_pair = NoResult
    /\ splitIdle
    /\ imageIdle

DimsCall ==
    /\ d_pc = "call"
    /\ d_out' = get_dims(d_bounds, d_res, d_padding, d_min_len)
    /\ d_pc' = "called"
    /\ UNCHANGED <<d_bounds, d_res, d_padding, d_min_len, d_pair, splitVars, imageVars>>

DimsCallPair ==
    /\ d_pc = "called"
    /\ IsScalar(d_padding)
    /\ d_pair' = get_dims(d_bounds, d_res, TuplePadding(d_padding.y, d_padding.x), d_min_len)
    /\ d_pc' = "paired"
    /\ UNCHANGED <<d_bounds, d_res, d_padding, d_min_len, d_out, splitVars, imageVars>>

NextDims == DimsCall \/ DimsCallPair

SpecDims == InitDims /\ [][NextDims]_vars

\* C1: for valid bounds, a resolution > 0 and min_len >= 1 (padding None, an int
\* or a pair), get_dims returns, and the returned width and height are each
\* >= min_len, also when the first floor((max - min) / res) is below min_len.
ResolverMinimum ==
    (d_pc \in {"called", "paired"} /\ d_padding.kind # "float")
        => (d_out.ok /\ d_out.width >= d_min_len /\ d_out.height >= d_min_len)

Shape(W, H, A, T) ==
    {<<0, 0, W, H>>} \cup (IF A > 0 THEN {<<W, 0, W + A, T>>} ELSE {})

ArmStep == 40 * FU

Shapes ==
    {Shape(W, H, a * ArmStep, T) :
        W \in {FU, 32 * FU, 40 * FU, 81 * HU},
        H \in {16 * FU, 32 * FU, 40 * FU, 80 * FU},
        a \in 0..MaxArm,
        T \in {FU \div 8, FU, 3 * FU}}

\* res and max_len (pixels)
ResMaxLens ==
    {<<Res10cm, 320>>, <<DefaultRes, 256>>, <<DefaultRes, 320>>, <<Res1m, 40>>, <<Res1m, 320>>}

Init ==
    /\ pc = "get_dims"
    /\ geometry \in Shapes
    /\ \E rm \in ResMaxLens : res = rm[1] /\ max_len = rm[2]
    /\ buffer \in {b * FU : b \in 0..MaxBuffer}
    /\ dims = NoResult
    /\ xlines = {} /\ ylines = {} /\ gdf = {} /\ slivers = {}
    /\ absorbed = {} /\ dropped = {} /\ ret = {}
    /\ dimsIdle
    /\ imageIdle

Next == SplitGetDims \/ SplitLines \/ SplitPolygonize \/ SplitAbsorb \/ SplitBuffer

Spec == Init /\ [][Next]_vars

\* every cut coordinate np.linspace yields is a whole number of fine units
LinspaceExact ==
    pc \in {"split", "absorb", "done"} =>
        /\ \A k \in 1..Cardinality(xlines) :
              ((dims.bounds[3] - dims.bounds[1]) * k) % (Cardinality(xlines) + 1) = 0
        /\ \A k \in 1..Cardinality(ylines) :
              ((dims.bounds[4] - dims.bounds[2]) * k) % (Cardinality(ylines) + 1) = 0

\* the input's own pixel extent at the caller's res is within max_len
WithinMaxLen ==
    PixelWidth(geometry, res) <= max_len /\ PixelHeight(geometry, res) <= max_len

\* the call returned through `if len(lines)==0`
EarlyReturn == pc = "done" /\ xlines \cup ylines = {}

\* the call returned after the split, filter and sliver loop
SplitReturn == pc = "done" /\ xlines \cup ylines # {}

\* C2: with buffer 0, unless the input's pixel extent at res was already within
\* max_len on both axes, every returned tile has pixel width and pixel height,
\* computed with the caller's res, of at most max_len.
TileAxisBound ==
    (pc = "done" /\ buffer = 0 /\ ~WithinMaxLen) =>
        \A t \in ret : PixelWidth(t, res) <= max_len /\ PixelHeight(t, res) <= max_len

\* C3: a polygon whose pixel extent at res is within max_len on both axes comes
\* back as exactly one tile, equal to the input.
SmallInputUnchanged ==
    (pc \in {"done", "raised"} /\ WithinMaxLen) =>
        /\ pc = "done"
        /\ Cardinality(ret) = 1
        /\ \A t \in ret : SameRegion(t, geometry)

\* C4: the union of the returned tiles covers the whole input polygon.
TilesCoverInput ==
    pc = "done" => Covers(UNION ret, geometry)

\* C5 as stated: on every return path, the early return included, no returned
\* tile has area < 100 square georeferenced units.
NoSmallTileAnyPath ==
    pc = "done" => \A t \in ret : Area(t) >= SqUnits(SliverArea)

\* C5 as amended: when split_geom cuts the input (at least one cut line), no
\* returned tile has area < 100 square georeferenced units.
NoSmallTileAfterSplit ==
    SplitReturn => \A t \in ret : Area(t) >= SqUnits(SliverArea)

\* a split call that absorbed a sliver into a tile and returned tiles
NoSmallTileWitness ==
    /\ SplitReturn
    /\ absorbed # {}
    /\ ret # {}
    /\ \E t \in ret : Area(t) < 2 * SqUnits(SliverArea)

\* C6: split_geom does not raise for a well-formed simple polygon, also when
\* get_dims has to pad an axis up to min_len.
SplitNeverRaises ==
    pc # "raised"

\* C8: an axis of pixel length L = (max - min) / res > max_len that split_geom
\* cuts is cut into L // max_len + 1 sub-parts.
SubPartCount ==
    pc \in {"split", "absorb", "done"} =>
        /\ (xlines # {} /\ dims.bounds[3] - dims.bounds[1] > res * max_len) =>
              Cardinality(xlines) + 1
                  = (dims.bounds[3] - dims.bounds[1]) \div (res * max_len) + 1
        /\ (ylines # {} /\ dims.bounds[4] - dims.bounds[2] > res * max_len) =>
              Cardinality(ylines) + 1
                  = (dims.bounds[4] - dims.bounds[2]) \div (res * max_len) + 1

(***************************************************************************)
(* SpecImage: get_image from the tile loop on                              *)
(***************************************************************************)
\* the bounds of a tile: 40 x 40 units, or 16 x 40 units (below min_len pixels)
TileBounds == {<<0, 0, 40 * FU, 40 * FU>>, <<0, 0, 16 * FU, 40 * FU>>}

TileSeqs == UNION {[1..n -> TileBounds] : n \in 0..MaxTiles}

InitImage ==
    /\ i_pc = "tile"
    /\ tries \in 1..MaxTries
    /\ tiles \in TileSeqs
    /\ g = 1
    /\ i = 0
    /\ reqs = [t \in 1..Len(tiles) |-> <<>>]
    /\ sentAt = [t \in 1..Len(tiles) |-> <<>>]
    /\ clock = 0
    /\ written = {}
    /\ raised = ""
    /\ dimsIdle
    /\ splitIdle

NextImage == ImgGetDims \/ ImgRequest \/ ImgSleep \/ ImgRaise \/ ImgWrite \/ ImgReturn

SpecImage == InitImage /\ [][NextImage]_vars

AllFailed(t) == \A k \in 1..Len(reqs[t]) : IsHttpError(reqs[t][k])

\* C7: tiles are taken in order; a tile gets at most `tries` requests and none
\* after its first success; when get_image has ended, RuntimeError was raised
\* exactly when some tile had all `tries` requests end in an HTTP error; and
\* after the raise no later tile has been requested or written.
FetchLoopContract ==
    /\ \A t \in 1..Len(tiles) :
          /\ Len(reqs[t]) <= tries
          /\ \A k \in 1..(Len(reqs[t]) - 1) : IsHttpError(reqs[t][k])
          /\ reqs[t] # <<>> => \A u \in 1..(t - 1) : u \in written
          /\ t \in written => (reqs[t] # <<>> /\ ~AllFailed(t))
    /\ i_pc \in {"raised", "returned"} =>
          (raised = "RuntimeError"
              <=> \E t \in 1..Len(tiles) : Len(reqs[t]) = tries /\ AllFailed(t))
    /\ i_pc = "raised" =>
          \A t \in g..Len(tiles) : t \notin written /\ (t > g => reqs[t] = <<>>)

\* a second tile whose `tries` > 1 requests all failed, after a first tile that
\* was written on a retry
FetchLoopWitness ==
    /\ i_pc = "raised"
    /\ raised = "RuntimeError"
    /\ tries > 1
    /\ g = 2
    /\ 1 \in written
    /\ Len(reqs[1]) > 1
    /\ clock > 0
    /\ Len(tiles) > 2

\* C10: a failed request is retried only on a timeout: the request after a 504
\* is sent at least 5 seconds later, and after an HTTP error with any other
\* status no further request is sent for that tile.
RetryOnlyOnTimeout ==
    \A t \in 1..Len(tiles) :
        \A k \in 1..(Len(reqs[t]) - 1) :
            /\ reqs[t][k] = TimeoutCode => sentAt[t][k + 1] >= sentAt[t][k] + SleepSecs
            /\ reqs[t][k] # StatusOther

====
